---- MODULE Spec2Model ----
(***************************************************************************)
(* Model of generate_ics_content (src/travel_agent.py, lines 12-59) and of *)
(* the script run that invokes it (lines 145-148).                           *)
(*                                                                         *)
(* Text is a sequence of one-character strings.  A datetime is a pair      *)
(* <<ordinal, tod>>: the proleptic Gregorian ordinal of its date and a     *)
(* time-of-day tick; None is the empty tuple.  An event is the record of   *)
(* the properties the code adds to it.                                     *)
(***************************************************************************)
EXTENDS Integers, Sequences, FiniteSets, TLC

VARIABLES itinerary, start_arg, clock, pc, start_date, days, idx, cal,
          result, call_time, prev

vars == <<itinerary, start_arg, clock, pc, start_date, days, idx, cal,
          result, call_time, prev>>

-----------------------------------------------------------------------------
(* Bounds of the model *)

MaxTokens == 2
MaxBlocks == 3
MaxTicks == 1

-----------------------------------------------------------------------------
(* Dates *)

None == <<>>

\* date.min.toordinal() and date.max.toordinal(): the range outside which
\* datetime + timedelta raises OverflowError
MINORD == 1
MAXORD == 3652059

\* datetime(2024, 1, 1), datetime.min and datetime.max as callers can pass them
Jan1_2024 == <<738886, 0>>
DatetimeMin == <<MINORD, 0>>
DatetimeMax == <<MAXORD, 1>>

\* the wall clock when the script starts: 2026-11-04, second half of the day
ClockStart == <<739924, 1>>

\* datetime.date()
DateOf(dt) == dt[1]

\* variant: the last representable date is refused
DateInRange_exclusive(d) == MINORD <= d /\ d < MAXORD

\* the range check of datetime.__add__
DateInRange(d) == MINORD <= d /\ d <= MAXORD

\* the clock after one tick: two ticks make a day
NextTick(c) == IF c[2] = 0 THEN <<c[1], 1>> ELSE <<c[1] + 1, 0>>

RECURSIVE TickN(_, _)
TickN(c, n) == IF n = 0 THEN c ELSE TickN(NextTick(c), n - 1)

ClockEnd == TickN(ClockStart, MaxTicks)

-----------------------------------------------------------------------------
(* Characters *)

DIGITS == {"0", "1", "2", "3", "4", "5", "6", "7", "8", "9"}

\* \s of the re module, and the characters str.strip() removes
WHITESPACE == {" ", "\t", "\n", "\r"}

\* the class [:\s]
SEPARATOR == {":"} \cup WHITESPACE

DigitValue(c) ==
  CASE c = "0" -> 0 [] c = "1" -> 1 [] c = "2" -> 2 [] c = "3" -> 3
    [] c = "4" -> 4 [] c = "5" -> 5 [] c = "6" -> 6 [] c = "7" -> 7
    [] c = "8" -> 8 [] c = "9" -> 9

\* int(day_num): Horner evaluation of a decimal digit string
RECURSIVE ToInt(_)
ToInt(ds) ==
  IF ds = <<>> THEN 0
  ELSE 10 * ToInt(SubSeq(ds, 1, Len(ds) - 1)) + DigitValue(ds[Len(ds)])

-----------------------------------------------------------------------------
(* The regular expression  Day (\d+)[:\s]+(.*?)(?=Day \d+|$)  with DOTALL *)

\* variant: the literal matched without regard to the case of its first letter
LitDay_ignorecase(s, i) ==
  /\ i + 3 <= Len(s)
  /\ s[i] \in {"D", "d"} /\ s[i + 1] = "a" /\ s[i + 2] = "y" /\ s[i + 3] = " "

\* the literal "Day " at position i
LitDay(s, i) ==
  /\ i + 3 <= Len(s)
  /\ s[i] = "D" /\ s[i + 1] = "a" /\ s[i + 2] = "y" /\ s[i + 3] = " "

\* a greedy quantifier over a character class: the first position at or
\* after i whose character is not in the class
RECURSIVE Greedy(_, _, _)
Greedy(s, i, class) ==
  IF i <= Len(s) /\ s[i] \in class THEN Greedy(s, i + 1, class) ELSE i

\* $ without MULTILINE: the end of the text, or just before a final newline
AtDollar(s, j) == j = Len(s) + 1 \/ (j = Len(s) /\ s[j] = "\n")

\* variant: the lookahead (?=Day \d+[:\s]|$), which stops only at a full marker
LookAhead_separated(s, j) ==
  \/ /\ LitDay(s, j)
     /\ Greedy(s, j + 4, DIGITS) > j + 4
     /\ Greedy(s, j + 4, DIGITS) <= Len(s)
     /\ s[Greedy(s, j + 4, DIGITS)] \in SEPARATOR
  \/ AtDollar(s, j)

\* the lookahead (?=Day \d+|$)
LookAhead(s, j) ==
  \/ LitDay(s, j) /\ j + 4 <= Len(s) /\ s[j + 4] \in DIGITS
  \/ AtDollar(s, j)

\* the lazy (.*?): the first position at or after j where the lookahead holds
RECURSIVE LazyDot(_, _)
LazyDot(s, j) == IF LookAhead(s, j) THEN j ELSE LazyDot(s, j + 1)

NoMatch == [ok |-> FALSE]

\* One match attempt at position i.  The greedy runs never have to give a
\* character back: a digit is not a separator, and after the longest
\* separator run the lazy group always reaches a position where the
\* lookahead holds (the end of the text at the latest).
MatchAt(s, i) ==
  IF ~LitDay(s, i) THEN NoMatch
  ELSE LET ds == i + 4
           de == Greedy(s, ds, DIGITS)
           se == Greedy(s, de, SEPARATOR)
           ce == LazyDot(s, se)
       IN  IF de = ds \/ se = de THEN NoMatch
           ELSE [ok |-> TRUE,
                 num |-> SubSeq(s, ds, de - 1),
                 content |-> SubSeq(s, se, ce - 1),
                 from |-> se, to |-> ce]

\* findall: the leftmost match at or after pos, then on from its end.  Each
\* entry holds the two groups and the span of the second one.
RECURSIVE Findall(_, _)
Findall(s, pos) ==
  IF pos > Len(s) THEN <<>>
  ELSE LET m == MatchAt(s, pos)
       IN  IF m.ok THEN <<m>> \o Findall(s, m.to) ELSE Findall(s, pos + 1)

-----------------------------------------------------------------------------
(* str.strip() *)

RECURSIVE LStrip(_)
LStrip(t) ==
  IF t # <<>> /\ t[1] \in WHITESPACE THEN LStrip(Tail(t)) ELSE t

RECURSIVE RStrip(_)
RStrip(t) ==
  IF t # <<>> /\ t[Len(t)] \in WHITESPACE
  THEN RStrip(SubSeq(t, 1, Len(t) - 1)) ELSE t

\* variant: every whitespace character removed, inner ones too
Strip_all(t) == SelectSeq(t, LAMBDA c : c \notin WHITESPACE)

Strip(t) == RStrip(LStrip(t))

-----------------------------------------------------------------------------
(* The function body, lines 23-59 *)

\* variant: one calendar object kept from call to call
NewCalendar_shared == cal

\* cal = Calendar(): a calendar with no component (line 23)
NewCalendar == <<>>

\* variant: a default fixed once instead of read from the clock
DefaultStart_fixed(arg, now) == IF arg = None THEN Jan1_2024 ELSE arg

\* lines 27-28: start_date defaults to datetime.today()
DefaultStart(arg, now) == IF arg = None THEN now ELSE arg

\* variant: findall, keeping only the first match of each day number
Days_dedup(plan_text) ==
  LET all == Findall(plan_text, 1)
      Seen(k) == \E j \in 1..(k - 1) : all[j].num = all[k].num
      Keep[k \in 0..Len(all)] ==
        IF k = 0 THEN <<>>
        ELSE IF Seen(k) THEN Keep[k - 1] ELSE Append(Keep[k - 1], all[k])
  IN  Keep[Len(all)]

\* lines 31-32: days = day_pattern.findall(plan_text)
Days(plan_text) == Findall(plan_text, 1)

\* variant: day numbers below 1 treated as day 1
CurrentDate_clamped(start, day_num) ==
  <<start[1] + (IF day_num < 1 THEN 1 ELSE day_num) - 1, start[2]>>

\* line 46: start_date + timedelta(days=day_num - 1); the time of day is kept
CurrentDate(start, day_num) == <<start[1] + (day_num - 1), start[2]>>

\* lines 35-40: the single event of a text without day pattern
FallbackEvent(plan_text, start, now) ==
  [summary |-> <<"TRIP">>,
   description |-> plan_text,
   dtstart |-> DateOf(start),
   dtend |-> DateOf(start),
   dtstamp |-> now]

\* variant: an exclusive end date, the day after the start
DayEvent_nextday(day_num, day_content, current_date, now) ==
  [summary |-> <<"DAY", day_num>>,
   description |-> Strip(day_content),
   dtstart |-> DateOf(current_date),
   dtend |-> DateOf(current_date) + 1,
   dtstamp |-> now]

\* lines 49-56: the event of one day; the summary is the day number in a
\* fixed phrase
DayEvent(day_num, day_content, current_date, now) ==
  [summary |-> <<"DAY", day_num>>,
   description |-> Strip(day_content),
   dtstart |-> DateOf(current_date),
   dtend |-> DateOf(current_date),
   dtstamp |-> now]

\* the OverflowError that datetime.__add__ raises: its only argument is a
\* fixed message
OverflowError == [kind |-> "raised", type |-> "OverflowError",
                  message |-> <<"date", " ", "value", " ", "out", " ", "of",
                                " ", "range">>]

NoResult == [kind |-> "none"]

-----------------------------------------------------------------------------
(* Inputs *)

RECURSIVE Flatten(_)
Flatten(ts) == IF ts = <<>> THEN <<>> ELSE Head(ts) \o Flatten(Tail(ts))

SeqsUpTo(S, n) == UNION {[1..k -> S] : k \in 0..n}

\* short pieces: markers, a lower-case marker, separators, text, a digit
Tokens ==
  { <<"D", "a", "y", " ", "1">>,
    <<"D", "a", "y", " ", "0">>,
    <<"d", "a", "y", " ", "1">>,
    <<":">>, <<" ">>, <<"\n">>, <<"x">>, <<"2">> }

\* whole blocks: days with content, a marker without separator, free text
Blocks ==
  { <<"D", "a", "y", " ", "1", ":", " ", "a", " ", "b", "\n">>,
    <<"D", "a", "y", " ", "3", ":", "x">>,
    <<"D", "a", "y", " ", "0", " ", "y", " ">>,
    <<"D", "a", "y", " ", "7", "z">>,
    <<"D", "a", "y", " ", "1">>,
    <<"p", " ">> }

\* "Day 1: Visit museum\nDay 2: Beach"
MuseumBeach ==
  <<"D", "a", "y", " ", "1", ":", " ",
    "V", "i", "s", "i", "t", " ", "m", "u", "s", "e", "u", "m", "\n",
    "D", "a", "y", " ", "2", ":", " ", "B", "e", "a", "c", "h">>

Texts ==
  {Flatten(ts) : ts \in SeqsUpTo(Tokens, MaxTokens)}
    \cup {Flatten(bs) : bs \in SeqsUpTo(Blocks, MaxBlocks)}
    \cup {MuseumBeach}

StartArgs == {None, Jan1_2024, DatetimeMin, DatetimeMax}

-----------------------------------------------------------------------------
(* The state machine *)

NoPrev == [kind |-> "none", events |-> <<>>, call_time |-> None]

Init ==
  /\ itinerary \in Texts
  /\ start_arg \in StartArgs
  /\ clock = ClockStart
  /\ pc = "idle"
  /\ start_date = None
  /\ days = <<>>
  /\ idx = 1
  /\ cal = <<>>
  /\ result = NoResult
  /\ call_time = None
  /\ prev = NoPrev

\* The wall clock advances.  The code reads it at the call (line 28) and
\* when it stamps an event (lines 40 and 56), so that only the ticks before
\* such a reading can be told apart.
Tick ==
  /\ pc \in {"idle", "body"}
  /\ clock # ClockEnd
  /\ clock' = NextTick(clock)
  /\ UNCHANGED <<itinerary, start_arg, pc, start_date, days, idx, cal,
                 result, call_time, prev>>

\* lines 23-32: entry of generate_ics_content(itinerary, start_arg)
Call ==
  /\ pc = "idle"
  /\ cal' = NewCalendar
  /\ start_date' = DefaultStart(start_arg, clock)
  /\ days' = Days(itinerary)
  /\ idx' = 1
  /\ call_time' = clock
  /\ result' = NoResult
  /\ pc' = "body"
  /\ UNCHANGED <<itinerary, start_arg, clock, prev>>

\* lines 34-41 and 59: no day pattern found; one event, then the return
Fallback ==
  /\ pc = "body"
  /\ days = <<>>
  /\ cal' = Append(cal, FallbackEvent(itinerary, start_date, clock))
  /\ result' = [kind |-> "returned", events |-> cal']
  /\ pc' = "returned"
  /\ UNCHANGED <<itinerary, start_arg, clock, start_date, days, idx,
                 call_time, prev>>

\* lines 44-57: one iteration of the loop over days
ProcessDay ==
  /\ pc = "body"
  /\ idx <= Len(days)
  /\ LET day_num == ToInt(days[idx].num)
         current_date == CurrentDate(start_date, day_num)
     IN  /\ DateInRange(DateOf(current_date))
         /\ cal' = Append(cal, DayEvent(day_num, days[idx].content,
                                        current_date, clock))
  /\ idx' = idx + 1
  /\ UNCHANGED <<itinerary, start_arg, clock, pc, start_date, days,
                 result, call_time, prev>>

\* line 46 raises: the date is out of range, and nothing catches it
RaiseOverflow ==
  /\ pc = "body"
  /\ idx <= Len(days)
  /\ ~DateInRange(DateOf(CurrentDate(start_date, ToInt(days[idx].num))))
  /\ result' = OverflowError
  /\ pc' = "raised"
  /\ UNCHANGED <<itinerary, start_arg, clock, start_date, days, idx, cal,
                 call_time, prev>>

\* line 59 after the loop: return cal.to_ical()
Return ==
  /\ pc = "body"
  /\ days # <<>>
  /\ idx > Len(days)
  /\ result' = [kind |-> "returned", events |-> cal]
  /\ pc' = "returned"
  /\ UNCHANGED <<itinerary, start_arg, clock, start_date, days, idx, cal,
                 call_time, prev>>

\* lines 145-148: the script runs again with the same session state and
\* invokes the function with the same arguments
Rerun ==
  /\ pc \in {"returned", "raised"}
  /\ prev' = [kind |-> result.kind,
              events |-> IF result.kind = "returned" THEN result.events
                         ELSE <<>>,
              call_time |-> call_time]
  /\ pc' = "idle"
  /\ UNCHANGED <<itinerary, start_arg, clock, start_date, days, idx, cal,
                 result, call_time>>

Next ==
  \/ Tick
  \/ Call
  \/ Fallback
  \/ ProcessDay
  \/ RaiseOverflow
  \/ Return
  \/ Rerun

Spec == Init /\ [][Next]_vars

Done == pc = "returned"

-----------------------------------------------------------------------------
(* What the text says, read off the text itself *)

Min(S) == CHOOSE x \in S : \A y \in S : x <= y
Max(S) == CHOOSE x \in S : \A y \in S : y <= x

DayWord == <<"D", "a", "y", " ">>

StartsWith(s, i, w) ==
  i + Len(w) - 1 <= Len(s) /\ SubSeq(s, i, i + Len(w) - 1) = w

\* an occurrence of "Day " followed by a digit
DayOccurrence(s, i) ==
  StartsWith(s, i, DayWord) /\ i + 4 <= Len(s) /\ s[i + 4] \in DIGITS

\* the first position after the run of characters of class that starts at i
RunEnd(s, i, class) ==
  CHOOSE e \in i..(Len(s) + 1) :
    /\ e = Len(s) + 1 \/ s[e] \notin class
    /\ \A k \in i..(e - 1) : s[k] \in class

DigitsEnd(s, i) == RunEnd(s, i + 4, DIGITS)

\* a day marker: "Day ", digits, then at least one colon or whitespace
IsMarker(s, i) ==
  /\ DayOccurrence(s, i)
  /\ DigitsEnd(s, i) <= Len(s)
  /\ s[DigitsEnd(s, i)] \in SEPARATOR

MarkerSet(s) == {i \in 1..Len(s) : IsMarker(s, i)}

\* the k-th position of ms in the order of the text
Nth(ms, k) == CHOOSE p \in ms : Cardinality({q \in ms : q < p}) = k - 1

RECURSIVE Pow10(_)
Pow10(n) == IF n = 0 THEN 1 ELSE 10 * Pow10(n - 1)

RECURSIVE DecimalValue(_)
DecimalValue(ds) ==
  IF ds = <<>> THEN 0
  ELSE DigitValue(Head(ds)) * Pow10(Len(ds) - 1) + DecimalValue(Tail(ds))

\* the day number of the marker at i
MarkerNumber(s, i) == DecimalValue(SubSeq(s, i + 4, DigitsEnd(s, i) - 1))

\* the first position after the marker's separator
SeparatorEnd(s, i) == RunEnd(s, DigitsEnd(s, i), SEPARATOR)

\* the next occurrence of "Day " + digits after the separator, or the end
ContentEnd(s, i) ==
  Min({j \in SeparatorEnd(s, i)..Len(s) : DayOccurrence(s, j)}
        \cup {Len(s) + 1})

\* t without its leading and trailing whitespace
Trimmed(t) ==
  LET inner == {k \in 1..Len(t) : t[k] \notin WHITESPACE}
  IN  IF inner = {} THEN <<>> ELSE SubSeq(t, Min(inner), Max(inner))

ExpectedDescription(s, i) ==
  Trimmed(SubSeq(s, SeparatorEnd(s, i), ContentEnd(s, i) - 1))

\* the date component of the effective start date of the current call
EffectiveStartDay ==
  IF start_arg = None THEN DateOf(call_time) ELSE DateOf(start_arg)

ExpectedDay(s, i) == EffectiveStartDay + MarkerNumber(s, i) - 1

Markers == MarkerSet(itinerary)

\* the k-th marker of the itinerary
Marker(k) == Nth(Markers, k)

Events == result.events

\* the result has one event per marker
OnePerMarker ==
  result.kind = "returned" /\ Len(Events) = Cardinality(Markers)

\* the first matched marker after position u, or the end of the text
NextAfter(ms, s, u) == Min({m \in ms : m > u} \cup {Len(s) + 1})

\* occurrences of "Day " + digits that are not markers
Unmatched(s) == {u \in 1..Len(s) : DayOccurrence(s, u) /\ ~IsMarker(s, u)}

\* the positions outside every matched segment
Dropped(s) ==
  LET ms == MarkerSet(s)
      first == Min(ms \cup {Len(s) + 1})
      unmatched == Unmatched(s)
  IN  {p \in 1..Len(s) :
         \/ p < first
         \/ \E u \in unmatched : u <= p /\ p < NextAfter(ms, s, u)}

\* an event without its generation timestamp
Unstamped(e) ==
  [summary |-> e.summary, description |-> e.description,
   dtstart |-> e.dtstart, dtend |-> e.dtend]

UnstampedAll(evs) == [k \in 1..Len(evs) |-> Unstamped(evs[k])]

\* the message names the day number
Mentions(message, num) ==
  \E k \in 1..Len(message) :
    k + Len(num) - 1 <= Len(message)
      /\ SubSeq(message, k, k + Len(num) - 1) = num

-----------------------------------------------------------------------------
(* Claims *)

\* C1: a text in which no day marker is matched gives exactly one event,
\* dated on the date of the effective start date at both ends, whose
\* description is the whole text unchanged; such a call never raises.
C1_FallbackEvent ==
  (pc \in {"returned", "raised"} /\ Markers = {}) =>
    /\ pc # "raised"
    /\ Done =>
         /\ Len(Events) = 1
         /\ Events[1].dtstart = EffectiveStartDay
         /\ Events[1].dtend = EffectiveStartDay
         /\ Events[1].description = itinerary

\* C1 witness: the lower-case "day 1:" has gone through the fallback path
C1_Witness ==
  /\ Done
  /\ itinerary = <<"d", "a", "y", " ", "1", ":">>
  /\ Len(Events) = 1

\* C2: the event of the k-th marker is dated start + (n - 1) days for the
\* marker's own day number n, wherever the marker stands in the text.
C2_DateByNumber ==
  (Done /\ Markers # {}) =>
    /\ OnePerMarker
    /\ \A k \in 1..Len(Events) :
         Events[k].dtstart = ExpectedDay(itinerary, Marker(k))

\* C2 witness: "Day 3" stands before "Day 1" and is dated two days after
\* the start; a "Day 0" is dated the day before the start
C2_Witness ==
  /\ Done
  /\ Len(Events) = 3
  /\ Events[1].summary = <<"DAY", 3>>
  /\ Events[1].dtstart = EffectiveStartDay + 2
  /\ Events[2].summary = <<"DAY", 1>>
  /\ Events[2].dtstart = EffectiveStartDay
  /\ Events[3].summary = <<"DAY", 0>>
  /\ Events[3].dtstart = EffectiveStartDay - 1

\* C3: with at least one marker there is exactly one event per marker, in
\* the order of the markers in the text, and no fallback event.
C3_OnePerMarkerInOrder ==
  (Done /\ Markers # {}) =>
    /\ OnePerMarker
    /\ \A k \in 1..Len(Events) :
         Events[k].summary =
           <<"DAY", MarkerNumber(itinerary, Marker(k))>>

\* C3 witness: two "Day 1" blocks gave two events, both on the start date
C3_Witness ==
  /\ Done
  /\ Len(Events) = 2
  /\ Events[1].summary = <<"DAY", 1>>
  /\ Events[2].summary = <<"DAY", 1>>
  /\ Events[1].dtstart = EffectiveStartDay
  /\ Events[2].dtstart = EffectiveStartDay
  /\ Events[1].description # <<>>

\* C4: the description of the k-th marker's event is the text from after
\* the marker's separator up to the next "Day " + digits or the end of the
\* text, without its leading and trailing whitespace; the museum and beach
\* example gives exactly its two events.
C4_Description ==
  /\ (Done /\ Markers # {}) =>
       /\ OnePerMarker
       /\ \A k \in 1..Len(Events) :
            Events[k].description =
              ExpectedDescription(itinerary, Marker(k))
  /\ (Done /\ itinerary = MuseumBeach /\ start_arg = Jan1_2024) =>
       /\ Len(Events) = 2
       /\ Events[1].dtstart = 738886
       /\ Events[1].description =
            <<"V", "i", "s", "i", "t", " ", "m", "u", "s", "e", "u", "m">>
       /\ Events[2].dtstart = 738887
       /\ Events[2].description = <<"B", "e", "a", "c", "h">>

\* C4 witness: the museum and beach example has been converted
C4_Witness ==
  /\ Done
  /\ itinerary = MuseumBeach
  /\ start_arg = Jan1_2024
  /\ Len(Events) = 2

\* C5: when a day's date is out of range the call fails with an error that
\* identifies the offending day number, and returns no document.
C5_ErrorNamesDay ==
  pc = "raised" =>
    /\ result.kind = "raised"
    /\ Mentions(result.message, days[idx].num)

C7_SingleDay ==
  Done => \A k \in 1..Len(Events) : Events[k].dtstart = Events[k].dtend

\* C7 witness: a document with several day events
C7_Witness ==
  /\ Done
  /\ Len(Events) >= 2
  /\ Events[1].dtstart # Events[2].dtstart

\* C8: without start_date, the dates count from the date of the clock at
\* the time of the call.
C8_DefaultsToToday ==
  (Done /\ start_arg = None) =>
    IF Markers = {}
    THEN Len(Events) = 1 /\ Events[1].dtstart = DateOf(call_time)
    ELSE /\ OnePerMarker
         /\ \A k \in 1..Len(Events) :
              Events[k].dtstart =
                DateOf(call_time)
                  + MarkerNumber(itinerary, Marker(k)) - 1

\* C8 witness: a call without start_date made after the clock had reached
\* the next day, the clock moving on during the call
C8_Witness ==
  /\ Done
  /\ start_arg = None
  /\ DateOf(call_time) = DateOf(ClockStart) + 1
  /\ Len(Events) >= 2
  /\ Events[2].summary = <<"DAY", 3>>
  /\ Events[2].dtstart = DateOf(call_time) + 2

\* C9: a second call with the same arguments, on the same clock date when
\* start_date is omitted, ends as the first one did and gives the same
\* events up to their generation timestamps.
C9_SameEvents ==
  (/\ pc \in {"returned", "raised"}
   /\ prev.kind # "none"
   /\ (start_arg # None \/ DateOf(prev.call_time) = DateOf(call_time))) =>
    /\ result.kind = prev.kind
    /\ result.kind = "returned" =>
         UnstampedAll(Events) = UnstampedAll(prev.events)

\* C9 witness: two runs returned several events that differ in their
\* timestamps
C9_Witness ==
  /\ Done
  /\ prev.kind = "returned"
  /\ Len(Events) >= 2
  /\ Len(prev.events) >= 2
  /\ Events[1].dtstamp # prev.events[1].dtstamp

\* C10: with at least one marker, each description is trimmed text that
\* stands in its marker's segment at a stretch holding no dropped position
\* (none before the first marker, none from an unmatched "Day " + digits up
\* to the next marker); without marker the whole text is the description.
C10_DroppedText ==
  Done =>
    LET ms == Markers
        dropped == Dropped(itinerary)
        Kept(a, b) == \A p \in a..(b - 1) : p \notin dropped
    IN  IF ms = {}
        THEN Len(Events) = 1 /\ Events[1].description = itinerary
        ELSE /\ Len(Events) = Cardinality(ms)
             /\ \A k \in 1..Len(Events) :
                  LET d == Events[k].description
                      m == Nth(ms, k)
                      n == NextAfter(ms, itinerary, m)
                  IN  /\ d = Trimmed(d)
                      /\ \E a \in m..(n - Len(d)) :
                           /\ Kept(a, a + Len(d))
                           /\ SubSeq(itinerary, a, a + Len(d) - 1) = d

\* C10 witness: text before the first marker and a malformed marker after
\* it were both left out
C10_Witness ==
  /\ Done
  /\ Markers # {}
  /\ Min(Markers) > 1
  /\ \E u \in Unmatched(itinerary) : u > Min(Markers)
  /\ Len(Events) = 1
  /\ Events[1].description = <<"x">>

====
